---- MODULE Spec2Model ----
(***************************************************************************)
(* orchard_aws: the Redshift connection (redshift.py), the S3 gateway      *)
(* (s3.py) and the SQL statement builder (sql_generator.py).               *)
(*                                                                         *)
(* Python strings that the code builds are modelled as sequences of        *)
(* tokens: str + str is \o, ' '.join interleaves " " tokens, s[:-1] drops  *)
(* the last token (the code only applies it where the last token is the    *)
(* single character ",").                                                  *)
(***************************************************************************)
EXTENDS Integers, Sequences, FiniteSets, Bags, TLC

VARIABLES
    conn,        \* Redshift.conn: "Disconnected" (None), "Connected", "Closed"
    attempts,    \* psycopg2.connect calls issued by __init__
    slept,       \* time __init__ spent in time.sleep
    tables,      \* warehouse: table name -> bag of rows (domain = existing tables)
    schemas,     \* warehouse: existing schemas
    store,       \* object store: <<bucket, key>> -> payload (domain = existing objects)
    sent,        \* statements the warehouse received during the current / last call
    raised,      \* exception the last call raised to its caller ("none" if it returned)
    result,      \* value the last call returned
    pc,          \* position of the running load ("idle" when none runs)
    call,        \* arguments of the running / last load
    key,         \* local `key` of df_to_redshift / s3_to_redshift
    df,          \* local `df` of s3_to_redshift: the payload read back
    uuid,        \* uuid.uuid4() values already drawn
    peer         \* a second thread on the same instance: its load, while the other runs

vars == <<conn, attempts, slept, tables, schemas, store, sent, raised, result,
          pc, call, key, df, uuid, peer>>

loadVars == <<pc, call, key, df, uuid>>

-----------------------------------------------------------------------------
(* Bounds of the model *)

\* largest row id of the data domain
MaxId == 2
\* largest number of rows in one input DataFrame
MaxRows == 2
\* largest number of columns of a ColumnSchema given to the DDL builder
MaxCols == 2

-----------------------------------------------------------------------------
(* Data *)

None == "None"
Null == "NULL"

Ids == 1..MaxId
\* cell values of an input DataFrame; "NaN" is the token the copy options name
InVals == {"a", "NaN"}
\* cell values a warehouse row can hold
WhVals == {"a", "b", Null}

InRows == [id : Ids, v : InVals]
WhRows == [id : Ids, v : WhVals]

\* the destination "s1.t" after schema_and_table.split('.')
Dest == <<"s1", "t">>
DefaultBucket == "b0"
\* time.sleep(5) between the two connect attempts of __init__
RetryDelay == 5
Buckets == {"b0", "b1"}

SourceTypes == {"int64", "object", "bool"}
\* config.get('pandas_redshift_datatypes'): source type -> warehouse type
TypeMap == [t \in {"int64", "object"} |-> IF t = "int64" THEN "BIGINT" ELSE "VARCHAR(500)"]

ColSchema(t) == <<[name |-> "id", type |-> "int64"], [name |-> "v", type |-> t]>>
Payloads ==
    {[cols |-> ColSchema(t), rows |-> SetToBag(R)] :
        t \in {"object", "bool"}, R \in {S \in SUBSET InRows : Cardinality(S) <= MaxRows}}

NoKey == <<>>
NoTable == <<>>
NoObj == <<None, NoKey>>
NoDf == [cols |-> <<>>, rows |-> EmptyBag]
\* arguments of a load: those of df_to_redshift, and (s3_*) those s3_to_redshift runs
\* with; `before` remembers the warehouse tables the call found, `token` is the
\* uuid.uuid4() of its csv_name, `again` tells the caller's second try of a failed load,
\* `read` and `deleted` are the objects its get_object and delete_object addressed
NoCall == [entry |-> "none", df |-> NoDf, schema_and_table |-> NoTable, sortkey |-> "",
           load_type |-> "full-refresh", primary_keys |-> <<>>, bucket |-> None,
           subdirectory |-> "automated_loads", keep_s3_backup |-> FALSE,
           s3_load_type |-> "full-refresh", s3_bucket |-> None, before |-> <<>>,
           token |-> 0, again |-> FALSE, read |-> NoObj, deleted |-> NoObj]
\* a thread that has made no call
NoPeer == [pc |-> "idle", call |-> NoCall, key |-> NoKey, df |-> NoDf,
           sent |-> <<>>, raised |-> "none", result |-> <<>>]

-----------------------------------------------------------------------------
(* string_utils.py, sql_generator.py: the statement builder *)

RECURSIVE Join(_, _)
\* delimiter.join(list) on token sequences
Join(list, delimiter) ==
    IF Len(list) = 0 THEN <<>>
    ELSE IF Len(list) = 1 THEN list[1]
    ELSE list[1] \o <<delimiter>> \o Join(Tail(list), delimiter)

list_to_string(string_list, delimiter) ==
    IF Len(string_list) = 0 THEN <<>> ELSE Join(string_list, delimiter)

\* s[:-1]
DropLast(s) == IF Len(s) = 0 THEN s ELSE SubSeq(s, 1, Len(s) - 1)

\* a statement: its kind, the tables, keys and object it names, and its text
Stmt(op, t, src, keys, obj, text) ==
    [op |-> op, t |-> t, src |-> src, keys |-> keys, obj |-> obj, text |-> text]

get_table_exists_query(schema, table) ==
    Stmt("exists", <<schema, table>>, NoTable, <<>>, NoObj, <<>>)

get_copy_from_s3_query(schema_and_table, s3_path, extra_params) ==
    Stmt("copy", schema_and_table, NoTable, <<>>, s3_path,
         IF Len(extra_params) = 0 THEN <<>>
         ELSE list_to_string([i \in 1..Len(extra_params) |-> <<extra_params[i]>>], " "))

\* a table name as the code holds it: 't__tmp', or 'schema.table'
NameText(name) == IF Len(name) = 1 THEN name[1] ELSE name[1] \o "." \o name[2]

RECURSIVE where_clause(_, _, _)
\* 'where 1=1 ' and, per key in list order, 'and {source}."{key}" = {dest}."{key}" '
where_clause(source, dest, primary_keys) ==
    IF Len(primary_keys) = 0 THEN <<"where 1=1 ">>
    ELSE where_clause(source, dest, DropLast(primary_keys))
         \o <<"and ", NameText(source), ".\"", primary_keys[Len(primary_keys)], "\" = ",
              NameText(dest), ".\"", primary_keys[Len(primary_keys)], "\" ">>

\* (variant) the conditions are rendered last key first
get_delete_from_dest_using_source_query_Reversed(source, dest, primary_keys) ==
    Stmt("delete", dest, source, primary_keys, NoObj,
         <<"delete from ", NameText(dest), " using ", NameText(source), "\n        ">>
         \o where_clause(source, dest,
                          [i \in 1..Len(primary_keys) |->
                              primary_keys[Len(primary_keys) + 1 - i]]))

get_delete_from_dest_using_source_query(source, dest, primary_keys) ==
    Stmt("delete", dest, source, primary_keys, NoObj,
         <<"delete from ", NameText(dest), " using ", NameText(source), "\n        ">>
         \o where_clause(source, dest, primary_keys))

get_insert_from_source_into_dest_query(source, dest) ==
    Stmt("insert", dest, source, <<>>, NoObj, <<>>)

get_create_schema_query(schema) ==
    Stmt("create_schema", <<schema>>, NoTable, <<>>, NoObj, <<>>)

get_drop_table_query(schema_and_table) ==
    Stmt("drop", schema_and_table, NoTable, <<>>, NoObj, <<>>)

get_create_temp_staging_table_query(temp_table, schema_and_table) ==
    Stmt("create_temp", temp_table, schema_and_table, <<>>, NoObj, <<>>)

\* the 'schema.table' string of a split name
Dotted(schema_and_table) == schema_and_table[1] \o "." \o schema_and_table[2]

\* the float NaN that Series.map leaves for a key the mapping lacks
NaNFloat == "float('nan')"

\* df.dtypes.to_frame(name='pandas_type').reset_index(): one row per column, in order
get_pandas_datatype_frame(d) ==
    [i \in 1..Len(d.cols) |-> [index |-> d.cols[i].name, pandas_type |-> d.cols[i].type]]

add_redshift_type_column(d, type_map) ==
    [i \in 1..Len(d) |->
        [index |-> d[i].index, pandas_type |-> d[i].pandas_type,
         redshift_type |-> IF d[i].pandas_type \in DOMAIN type_map
                           THEN type_map[d[i].pandas_type] ELSE NaNFloat]]

\* '"' + index + '" ' + redshift_type + ","  (str + NaN is NaN)
add_column_ddl(d) ==
    [i \in 1..Len(d) |->
        [index |-> d[i].index, pandas_type |-> d[i].pandas_type,
         redshift_type |-> d[i].redshift_type,
         column_ddl |-> IF d[i].redshift_type = NaNFloat THEN <<NaNFloat>>
                        ELSE <<"\"", d[i].index, "\" ", d[i].redshift_type, ",">>]]

\* (variant) the column definitions are joined last column first
get_ddl_string_Reversed(d) ==
    IF \E i \in 1..Len(d) : d[i].column_ddl = <<NaNFloat>>
    THEN [err |-> "TypeError", val |-> <<>>]
    ELSE [err |-> "none",
          val |-> DropLast(Join([i \in 1..Len(d) |-> d[Len(d) + 1 - i].column_ddl], " "))]

\* ' '.join(df.column_ddl)[:-1]; str.join raises TypeError on a float item
get_ddl_string(d) ==
    IF \E i \in 1..Len(d) : d[i].column_ddl = <<NaNFloat>>
    THEN [err |-> "TypeError", val |-> <<>>]
    ELSE [err |-> "none",
          val |-> DropLast(Join([i \in 1..Len(d) |-> d[i].column_ddl], " "))]

get_table_config_string(diststyle, sortkey) ==
    (IF diststyle # None THEN <<"diststyle ", diststyle, " ">> ELSE <<>>)
    \o (IF sortkey # None THEN <<"sortkey(", sortkey, ")">> ELSE <<>>)

\* the text after the column list of the base string
get_ddl_base_string(add_updated_column) ==
    IF add_updated_column
    THEN <<", \"__updated_at\" TIMESTAMP DEFAULT SYSDATE) ">>
    ELSE <<") ">>

create_table_ddl_from_df(schema_and_table, d, add_updated_column, diststyle, sortkey) ==
    LET type_map == TypeMap
        ddl_string == get_ddl_string(
            add_column_ddl(add_redshift_type_column(get_pandas_datatype_frame(d), type_map)))
    IN  IF ddl_string.err # "none"
        THEN [err |-> ddl_string.err, stmt |-> Stmt("none", NoTable, NoTable, <<>>, NoObj, <<>>)]
        ELSE [err |-> "none",
              stmt |-> Stmt("create_table", schema_and_table, NoTable, <<>>, NoObj,
                            <<"CREATE TABLE IF NOT EXISTS ", Dotted(schema_and_table), " (">>
                            \o ddl_string.val
                            \o get_ddl_base_string(add_updated_column)
                            \o get_table_config_string(diststyle, sortkey))]

-----------------------------------------------------------------------------
(* The warehouse: what a statement does once the cursor runs it *)

IsTemp(name) == Len(name) = 1
Put(f, k, v) == [x \in DOMAIN f \cup {k} |-> IF x = k THEN v ELSE f[x]]
Remove(f, k) == [x \in DOMAIN f \ {k} |-> f[x]]

\* temporary tables live in the session: closing or replacing it drops them
EndSession(tbls) == [x \in {n \in DOMAIN tbls : ~IsTemp(n)} |-> tbls[x]]

\* copy options "CSV DELIMITER AS ',' NULL AS 'NaN' BLANKSASNULL": a field that is
\* the token NaN, or blank, is loaded as null
CopyField(f) == IF f = "NaN" \/ f = "" THEN Null ELSE f
CopyRow(r) == [id |-> r.id, v |-> CopyField(r.v)]
CopyRows(B) ==
    [x \in {CopyRow(r) : r \in BagToSet(B)} |->
        BagCardinality([r \in {q \in BagToSet(B) : CopyRow(q) = x} |-> B[r]])]

\* delete from dest using source where 1=1 and source."k" = dest."k" ...
\* (a null never equals anything)
IsNull(r, k) == k = "v" /\ r.v = Null
Matches(s, d, keys) ==
    \A i \in 1..Len(keys) : s[keys[i]] = d[keys[i]] /\ ~IsNull(s, keys[i])
DeleteUsing(dest, source, keys) ==
    [d \in {x \in BagToSet(dest) : ~\E y \in BagToSet(source) : Matches(y, x, keys)}
        |-> dest[d]]

Done(tbls, schs, n) == [ok |-> TRUE, tables |-> tbls, schemas |-> schs, count |-> n]
Rejected == [ok |-> FALSE, tables |-> tables, schemas |-> schemas, count |-> 0]

\* the effect of statement q on the warehouse, or its rejection
Apply(q) ==
    CASE q.op = "exists" ->
            Done(tables, schemas, IF q.t \in DOMAIN tables THEN 1 ELSE 0)
      [] q.op = "drop" -> Done(Remove(tables, q.t), schemas, 0)
      [] q.op = "create_schema" -> Done(tables, schemas \cup {q.t[1]}, 0)
      [] q.op = "create_table" ->
            IF q.t \in DOMAIN tables THEN Done(tables, schemas, 0)
            ELSE IF q.t[1] \in schemas THEN Done(Put(tables, q.t, EmptyBag), schemas, 0)
            ELSE Rejected
      [] q.op = "create_temp" ->
            IF q.src \in DOMAIN tables /\ q.t \notin DOMAIN tables
            THEN Done(Put(tables, q.t, EmptyBag), schemas, 0)
            ELSE Rejected
      [] q.op = "copy" ->
            IF q.t \in DOMAIN tables /\ q.obj \in DOMAIN store
            THEN Done(Put(tables, q.t, tables[q.t] (+) CopyRows(store[q.obj].rows)),
                      schemas, 0)
            ELSE Rejected
      [] q.op = "delete" ->
            IF q.t \in DOMAIN tables /\ q.src \in DOMAIN tables
            THEN Done(Put(tables, q.t, DeleteUsing(tables[q.t], tables[q.src], q.keys)),
                      schemas, 0)
            ELSE Rejected
      [] q.op = "insert" ->
            IF q.t \in DOMAIN tables /\ q.src \in DOMAIN tables
            THEN Done(Put(tables, q.t, tables[q.t] (+) tables[q.src]), schemas, 0)
            ELSE Rejected
      [] OTHER -> Rejected

\* what cursor.execute / commit can raise for q: the statement's own rejection, or
\* a failure of the link at any time
Faults(q) == IF Apply(q).ok THEN {"none", "OperationalError"} ELSE {"ProgrammingError"}
AllFaults == {"none", "OperationalError", "ProgrammingError"}

-----------------------------------------------------------------------------
(* redshift.py: the connection *)

\* Redshift.close: self.conn.close()
close == [conn |-> "Closed", tables |-> EndSession(tables)]

\* (variant) the except branch re-raises without closing the connection
OnError_KeepsOpen(e) ==
    [conn |-> conn, tables |-> tables, schemas |-> schemas, raised |-> e, result |-> <<>>]

\* the except branch of execute / execute_and_fetch: self.close(); raise
OnError(e) ==
    [conn |-> close.conn, tables |-> close.tables, schemas |-> schemas,
     raised |-> e, result |-> <<>>]

\* (variant) execute opens a new session when it finds the connection closed
execute_Reconnects(query, f) ==
    IF f # "none"
    THEN [out |-> OnError(f), sent |-> <<query>>]
    ELSE [out |-> [conn |-> "Connected", tables |-> Apply(query).tables,
                   schemas |-> Apply(query).schemas, raised |-> "none", result |-> <<>>],
          sent |-> <<query>>]

\* Redshift.execute(query), f the fault of this run: what it leaves behind
execute(query, f) ==
    IF conn # "Connected"
    THEN [out |-> OnError("InterfaceError"), sent |-> <<>>]
    ELSE IF f # "none"
    THEN [out |-> OnError(f), sent |-> <<query>>]
    ELSE [out |-> [conn |-> conn, tables |-> Apply(query).tables,
                   schemas |-> Apply(query).schemas, raised |-> "none", result |-> <<>>],
          sent |-> <<query>>]

\* Redshift.execute_and_fetch(query, return_dataframe, return_json): the cursor runs
\* the query and fetches (no commit, so nothing it changed outlives the call; fetchall
\* on a statement without a result set raises) before the formats are compared
execute_and_fetch(query, return_dataframe, return_json, f) ==
    IF conn # "Connected"
    THEN [out |-> OnError("InterfaceError"), sent |-> <<>>]
    ELSE IF f # "none"
    THEN [out |-> OnError(f), sent |-> <<query>>]
    ELSE IF query.op # "exists"
    THEN [out |-> OnError("ProgrammingError"), sent |-> <<query>>]
    ELSE IF return_dataframe = return_json
    THEN [out |-> OnError("Exception"), sent |-> <<query>>]
    ELSE [out |-> [conn |-> conn, tables |-> tables, schemas |-> schemas,
                   raised |-> "none", result |-> <<Apply(query).count>>],
          sent |-> <<query>>]

\* (variant) the fetched count is compared with >= 0
check_table_exists_NonNegative(schema_and_table, f) ==
    LET r == execute_and_fetch(get_table_exists_query(schema_and_table[1],
                                                      schema_and_table[2]), FALSE, TRUE, f)
    IN  [out |-> r.out, sent |-> r.sent,
         ret |-> IF r.out.raised = "none" THEN r.out.result[1] >= 0 ELSE FALSE]

\* Redshift.check_table_exists(schema_and_table): the exists query through
\* execute_and_fetch(query, return_json=True), then resp[0]['count'] > 0
check_table_exists(schema_and_table, f) ==
    LET r == execute_and_fetch(get_table_exists_query(schema_and_table[1],
                                                      schema_and_table[2]), FALSE, TRUE, f)
    IN  [out |-> r.out, sent |-> r.sent,
         ret |-> IF r.out.raised = "none" THEN r.out.result[1] > 0 ELSE FALSE]

\* the state a connection call leaves
Leaves(r) ==
    /\ conn' = r.out.conn
    /\ tables' = r.out.tables
    /\ schemas' = r.out.schemas
    /\ raised' = r.out.raised
    /\ result' = r.out.result
    /\ sent' = r.sent

\* statements a caller of the connection sends in this model
ConnStmts ==
    {get_drop_table_query(Dest), get_drop_table_query(<<"t__tmp">>),
     get_table_exists_query("s1", "t"), get_create_schema_query("s1"),
     create_table_ddl_from_df(Dest, [cols |-> ColSchema("object")], FALSE, "auto", None).stmt,
     get_create_temp_staging_table_query(<<"t__tmp">>, Dest),
     get_insert_from_source_into_dest_query(<<"t__tmp">>, Dest)}

\* (variant) __init__ keeps retrying: a third attempt follows a second failure
RedshiftInit_ThirdAttempt(first, second) ==
    /\ conn = "Disconnected" /\ attempts = 0
    /\ attempts' = IF first THEN 1 ELSE IF second THEN 2 ELSE 3
    /\ slept' = IF first THEN 0 ELSE IF second THEN RetryDelay ELSE 2 * RetryDelay
    /\ conn' = "Connected"
    /\ raised' = "none"
    /\ sent' = <<>> /\ result' = <<>>
    /\ UNCHANGED <<peer, tables, schemas, store, loadVars>>

\* Redshift.__init__: connect, and on failure sleep 5 and connect once more;
\* first, second: whether psycopg2.connect succeeds at the first, the second attempt
RedshiftInit(first, second) ==
    /\ conn = "Disconnected" /\ attempts = 0
    /\ attempts' = IF first THEN 1 ELSE 2
    /\ slept' = IF first THEN 0 ELSE RetryDelay
    /\ conn' = IF first \/ second THEN "Connected" ELSE "Disconnected"
    /\ raised' = IF first \/ second THEN "none" ELSE "OperationalError"
    /\ sent' = <<>> /\ result' = <<>>
    /\ UNCHANGED <<peer, tables, schemas, store, loadVars>>

\* Redshift.connect() called on an instance: a new session replaces self.conn
Connect(ok) ==
    /\ conn # "Disconnected" /\ pc = "idle"
    /\ conn' = IF ok THEN "Connected" ELSE conn
    /\ tables' = IF ok THEN EndSession(tables) ELSE tables
    /\ raised' = IF ok THEN "none" ELSE "OperationalError"
    /\ sent' = <<>> /\ result' = <<>>
    /\ UNCHANGED <<peer, attempts, slept, schemas, store, loadVars>>

\* Redshift.close() called by the user
Close ==
    /\ conn # "Disconnected" /\ pc = "idle"
    /\ conn' = close.conn /\ tables' = close.tables
    /\ raised' = "none" /\ sent' = <<>> /\ result' = <<>>
    /\ UNCHANGED <<peer, attempts, slept, schemas, store, loadVars>>

\* Redshift.execute(query) called by the user
Execute(query, f) ==
    /\ conn # "Disconnected" /\ pc = "idle" /\ f \in Faults(query)
    /\ Leaves(execute(query, f))
    /\ UNCHANGED <<peer, attempts, slept, store, loadVars>>

\* Redshift.execute_and_fetch(query, ...) called by the user
ExecuteAndFetch(query, return_dataframe, return_json, f) ==
    /\ conn # "Disconnected" /\ pc = "idle" /\ f \in Faults(query)
    /\ Leaves(execute_and_fetch(query, return_dataframe, return_json, f))
    /\ UNCHANGED <<peer, attempts, slept, store, loadVars>>

\* Redshift.check_table_exists(schema_and_table) called by the user; the bool it
\* returns is kept as Python's int value of it (True == 1)
CheckTableExistsCall(f) ==
    LET r == check_table_exists(Dest, f)
    IN  /\ conn # "Disconnected" /\ pc = "idle"
        /\ f \in Faults(get_table_exists_query(Dest[1], Dest[2]))
        /\ conn' = r.out.conn /\ tables' = r.out.tables /\ schemas' = r.out.schemas
        /\ raised' = r.out.raised /\ sent' = r.sent
        /\ result' = IF r.out.raised # "none" THEN <<>> ELSE IF r.ret THEN <<1>> ELSE <<0>>
        /\ UNCHANGED <<peer, attempts, slept, store, loadVars>>

-----------------------------------------------------------------------------
(* Initial states and the specification of the connection *)

OldRows == [id : Ids, v : {"b"}]
InitTables ==
    {<<>>} \cup {[n \in {Dest} |-> SetToBag(R)] :
                    R \in {S \in SUBSET OldRows : Cardinality(S) <= MaxRows}}

Init ==
    /\ conn = "Disconnected" /\ attempts = 0 /\ slept = 0
    /\ tables \in InitTables
    /\ schemas \in {S \in SUBSET {"s1"} : Dest \in DOMAIN tables => "s1" \in S}
    /\ store = <<>>
    /\ sent = <<>> /\ raised = "none" /\ result = <<>>
    /\ pc = "idle" /\ call = NoCall /\ key = NoKey /\ df = NoDf
    /\ uuid = 0 /\ peer = NoPeer

NextConn ==
    \/ \E first, second \in BOOLEAN : RedshiftInit(first, second)
    \/ \E ok \in BOOLEAN : Connect(ok)
    \/ Close
    \/ \E query \in ConnStmts, f \in AllFaults : Execute(query, f)
    \/ \E query \in ConnStmts, f \in AllFaults, return_dataframe, return_json \in BOOLEAN :
          ExecuteAndFetch(query, return_dataframe, return_json, f)
    \/ \E f \in AllFaults : CheckTableExistsCall(f)

SpecConn == Init /\ [][NextConn]_vars

-----------------------------------------------------------------------------
(* redshift.py, s3.py: the load *)

\* s3 methods: `if bucket is None: bucket = self.bucket`
BucketOr(bucket) == IF bucket = None THEN DefaultBucket ELSE bucket

\* (variant) the staging table's name also carries the destination's schema
TempTable_WithSchema(schema_and_table) ==
    <<schema_and_table[1] \o "_" \o schema_and_table[2] \o "__tmp">>

\* (variant) the staging table's name also carries a token of the load
TempTable_PerLoad(schema_and_table) ==
    <<schema_and_table[2] \o "__tmp" \o (IF key # NoKey /\ key[3] < 0 THEN "2" ELSE "")>>

\* create_temp_staging_table: "{}__tmp".format(schema_and_table.split('.')[1])
TempTable(schema_and_table) == <<schema_and_table[2] \o "__tmp">>

\* the load ends: it returns (e = "none") or raises e to its caller
Ends(e) == pc' = "idle" /\ raised' = e

\* (variant) create_temp_staging_table does not drop the staging table first
StagingEntry_NoDrop == "create_temp"

\* where upsert_from_s3 starts: create_temp_staging_table's "ensure temp does not exist"
StagingEntry == "drop_temp"

\* (variant) the load catches the failure of a statement and goes on
ExecStep_GoesOn(q, f, next) ==
    LET r == execute(q, f)
    IN  /\ f \in Faults(q)
        /\ conn' = r.out.conn /\ tables' = r.out.tables /\ schemas' = r.out.schemas
        /\ sent' = sent \o r.sent
        /\ pc' = next /\ raised' = raised

\* self.execute(q) inside the load; the load goes on at `next` if it succeeds
ExecStep(q, f, next) ==
    LET r == execute(q, f)
    IN  /\ f \in Faults(q)
        /\ conn' = r.out.conn /\ tables' = r.out.tables /\ schemas' = r.out.schemas
        /\ sent' = sent \o r.sent
        /\ IF r.out.raised = "none" THEN pc' = next /\ raised' = raised
           ELSE Ends(r.out.raised)

\* (variant) the destination is never dropped
S3Entry_NeverDrops(load_type) == "s3_to_df"

\* (variant) the destination is dropped whatever the load type
S3Entry_AlwaysDrops(load_type) == "drop_dest"

\* where s3_to_redshift starts: `if load_type == 'full-refresh'`
S3Entry(load_type) == IF load_type = "full-refresh" THEN "drop_dest" ELSE "s3_to_df"

\* (variant) upsert deletes whatever the keys
UpsertEntry_AlwaysDeletes(primary_keys) == "upsert_delete"

\* where upsert starts: `if primary_keys`
UpsertEntry(primary_keys) == IF Len(primary_keys) > 0 THEN "upsert_delete" ELSE "upsert_insert"

\* what follows s3_to_redshift: df_to_redshift's `if not keep_s3_backup`, or the return
AfterS3(c) == IF c.entry = "df" /\ ~c.keep_s3_backup THEN "delete_file" ELSE "idle"

\* the arguments df_to_redshift passes on to s3_to_redshift: key, schema_and_table,
\* sortkey, columns, primary_keys, encoding; load_type and bucket keep their defaults
PassedOn(c) == [c EXCEPT !.s3_load_type = "full-refresh", !.s3_bucket = None]

\* (variant) the arguments are not validated
MissingKeys_Unchecked(load_type, primary_keys) == FALSE

\* line 175: `load_type == 'incremental' and primary_keys == []`
MissingKeys(load_type, primary_keys) == load_type = "incremental" /\ primary_keys = <<>>

\* (variant) uuid4 can return the value it returned before
uuid4_Repeats == IF uuid = 0 THEN 1 ELSE uuid

\* line 178: uuid.uuid4(), a value not drawn before
uuid4 == uuid + 1

\* df_to_redshift(df, schema_and_table, ...): lines 175-178
DfToRedshift(d, load_type, primary_keys, bucket, keep_s3_backup) ==
    /\ pc = "idle" /\ conn # "Disconnected" /\ call.entry = "none"
    /\ call' = PassedOn([NoCall EXCEPT !.entry = "df", !.df = d, !.schema_and_table = Dest,
                                       !.sortkey = "id", !.load_type = load_type,
                                       !.primary_keys = primary_keys, !.bucket = bucket,
                                       !.keep_s3_backup = keep_s3_backup,
                                       !.before = tables, !.token = uuid4,
                                       !.again = call.again])
    /\ key' = NoKey /\ df' = NoDf /\ sent' = <<>> /\ result' = <<>>
    /\ IF MissingKeys(load_type, primary_keys)
       THEN Ends("Exception") /\ uuid' = uuid
       ELSE pc' = "df_to_s3" /\ raised' = "none" /\ uuid' = uuid4
    /\ UNCHANGED <<peer, conn, attempts, slept, tables, schemas, store>>

\* s3.df_to_s3 / csv_to_s3 (line 180). df.to_csv(index=False, encoding=encosding)
\* reads the name `encosding`, which s3.py never binds: the call raises NameError
\* unless the namespace it runs in supplies the name. Past it, put_object stores the
\* payload and the key is returned, or put_object raises and None is returned
DfToS3(outcome) ==
    /\ pc = "df_to_s3"
    /\ CASE outcome = "to_csv raises" ->
               Ends("NameError") /\ UNCHANGED <<key, store>>
         [] outcome = "put_object" ->
               /\ key' = <<call.subdirectory, call.schema_and_table[2], call.token>>
               /\ store' = Put(store, <<BucketOr(call.bucket), key'>>, call.df)
               /\ pc' = S3Entry(call.s3_load_type) /\ raised' = raised
         [] outcome = "put_object raises" ->
               /\ key' = NoKey /\ store' = store
               /\ pc' = S3Entry(call.s3_load_type) /\ raised' = raised
    /\ UNCHANGED <<peer, conn, attempts, slept, tables, schemas, sent, result, call, df, uuid>>

\* s3_to_redshift(key, schema_and_table, ...) called by the user
S3ToRedshiftOn(schema_and_table, k, load_type, primary_keys, bucket) ==
    /\ pc = "idle" /\ conn # "Disconnected" /\ call.entry = "none"
    /\ call' = [NoCall EXCEPT !.entry = "s3", !.schema_and_table = schema_and_table,
                              !.sortkey = "id",
                              !.load_type = load_type, !.primary_keys = primary_keys,
                              !.bucket = bucket, !.s3_load_type = load_type,
                              !.s3_bucket = bucket, !.before = tables]
    /\ key' = k /\ df' = NoDf /\ sent' = <<>> /\ result' = <<>>
    /\ pc' = S3Entry(load_type) /\ raised' = "none"
    /\ UNCHANGED <<peer, conn, attempts, slept, tables, schemas, store, uuid>>

\* ... with the destination of the other specifications
S3ToRedshift(k, load_type, primary_keys, bucket) ==
    S3ToRedshiftOn(Dest, k, load_type, primary_keys, bucket)

\* lines 205-207
DropDest(f) ==
    /\ pc = "drop_dest"
    /\ ExecStep(get_drop_table_query(call.schema_and_table), f, "s3_to_df")
    /\ UNCHANGED <<peer, attempts, slept, store, result, call, key, df, uuid>>

\* line 209: s3.s3_to_df(bucket, key): get_object and read_csv
S3ToDf(ok) ==
    /\ pc = "s3_to_df"
    /\ call' = [call EXCEPT !.read = <<BucketOr(call.s3_bucket), key>>]
    /\ IF ok /\ <<BucketOr(call.s3_bucket), key>> \in DOMAIN store
       THEN /\ df' = store[<<BucketOr(call.s3_bucket), key>>]
            /\ pc' = "check_table_exists" /\ raised' = raised
       ELSE Ends("ClientError") /\ df' = df
    /\ UNCHANGED <<peer, conn, attempts, slept, tables, schemas, store, sent, result,
                   key, uuid>>

\* line 210: check_table_exists(schema_and_table)
CheckTableExists(f) ==
    LET r == check_table_exists(call.schema_and_table, f)
    IN  /\ pc = "check_table_exists"
        /\ f \in Faults(get_table_exists_query(call.schema_and_table[1],
                                                call.schema_and_table[2]))
        /\ conn' = r.out.conn /\ tables' = r.out.tables /\ schemas' = r.out.schemas
        /\ sent' = sent \o r.sent /\ result' = r.out.result
        /\ IF r.out.raised # "none" THEN Ends(r.out.raised)
           ELSE /\ raised' = raised
                /\ pc' = IF r.ret THEN StagingEntry ELSE "create_schema"
        /\ UNCHANGED <<peer, attempts, slept, store, call, key, df, uuid>>

\* the statement create_table_from_df builds (line 308), or the error building it
TableDdl == create_table_ddl_from_df(call.schema_and_table, df, FALSE, "auto", call.sortkey)

\* create_table_from_df, lines 306-315
CreateSchema(f) ==
    /\ pc = "create_schema"
    /\ IF TableDdl.err # "none"
       THEN Ends(TableDdl.err) /\ UNCHANGED <<conn, tables, schemas, sent>>
       ELSE ExecStep(get_create_schema_query(call.schema_and_table[1]), f, "create_table")
    /\ UNCHANGED <<peer, attempts, slept, store, result, call, key, df, uuid>>

\* create_table_from_df, line 317
CreateTable(f) ==
    /\ pc = "create_table"
    /\ ExecStep(TableDdl.stmt, f, StagingEntry)
    /\ UNCHANGED <<peer, attempts, slept, store, result, call, key, df, uuid>>

\* create_temp_staging_table, lines 277-282
DropTemp(f) ==
    /\ pc = "drop_temp"
    /\ ExecStep(get_drop_table_query(TempTable(call.schema_and_table)), f, "create_temp")
    /\ UNCHANGED <<peer, attempts, slept, store, result, call, key, df, uuid>>

\* create_temp_staging_table, lines 285-288
CreateTemp(f) ==
    /\ pc = "create_temp"
    /\ ExecStep(get_create_temp_staging_table_query(TempTable(call.schema_and_table),
                                                    call.schema_and_table), f, "copy")
    /\ UNCHANGED <<peer, attempts, slept, store, result, call, key, df, uuid>>

\* upsert_from_s3, lines 227-230, and copy_from_s3
CopyFromS3(f) ==
    /\ pc = "copy"
    /\ ExecStep(get_copy_from_s3_query(TempTable(call.schema_and_table),
                                       <<DefaultBucket, key>>,
                                       <<"CSV DELIMITER AS ',' NULL AS 'NaN' BLANKSASNULL",
                                         "COMPUPDATE OFF">>),
                f, UpsertEntry(call.primary_keys))
    /\ UNCHANGED <<peer, attempts, slept, store, result, call, key, df, uuid>>

\* upsert, lines 245-249
UpsertDelete(f) ==
    /\ pc = "upsert_delete"
    /\ ExecStep(get_delete_from_dest_using_source_query(
                    TempTable(call.schema_and_table), call.schema_and_table,
                    call.primary_keys), f, "upsert_insert")
    /\ UNCHANGED <<peer, attempts, slept, store, result, call, key, df, uuid>>

\* upsert, lines 251-253
UpsertInsert(f) ==
    /\ pc = "upsert_insert"
    /\ ExecStep(get_insert_from_source_into_dest_query(
                    TempTable(call.schema_and_table), call.schema_and_table),
                f, "drop_temp_after")
    /\ UNCHANGED <<peer, attempts, slept, store, result, call, key, df, uuid>>

\* upsert_from_s3, lines 234-236, and the return to the caller
DropTempAfter(f) ==
    /\ pc = "drop_temp_after"
    /\ ExecStep(get_drop_table_query(TempTable(call.schema_and_table)), f, AfterS3(call))
    /\ UNCHANGED <<peer, attempts, slept, store, result, call, key, df, uuid>>

\* df_to_redshift, lines 191-192: s3.delete_file(key), in the gateway's own bucket
DeleteFile(ok) ==
    /\ pc = "delete_file"
    /\ call' = [call EXCEPT !.deleted = <<BucketOr(None), key>>]
    /\ IF ok /\ key # NoKey
       THEN store' = Remove(store, <<BucketOr(None), key>>) /\ Ends("none")
       ELSE store' = store /\ Ends("ClientError")
    /\ UNCHANGED <<peer, conn, attempts, slept, tables, schemas, sent, result,
                   key, df, uuid>>

\* a df_to_redshift call is over: it returned or raised
LoadOver == pc = "idle" /\ call.entry = "df"
LoadReturned == LoadOver /\ raised = "none"

-----------------------------------------------------------------------------
(* The specifications of the loads *)

PrimaryKeys == {<<>>, <<"id">>}
LoadTypes == {"full-refresh", "incremental"}
CallerBuckets == {None} \cup (Buckets \ {DefaultBucket})
\* the key of an object staged before the behaviour starts
StagedKey == <<"automated_loads", "t", 0>>

\* a staging table an interrupted earlier load left in the session
Leftover == SetToBag({[id |-> 1, v |-> "a"]})

\* an instance that was constructed; an earlier failure may have closed its connection
\* (and with it the session's temporary tables)
InitInstance ==
    /\ pc = "idle" /\ call = NoCall /\ key = NoKey /\ df = NoDf
    /\ conn \in {"Connected", "Closed"} /\ attempts = 1 /\ slept = 0
    /\ tables \in InitTables \cup {Put(t, TempTable(Dest), Leftover) : t \in InitTables}
    /\ conn = "Closed" => \A n \in DOMAIN tables : ~IsTemp(n)
    /\ peer = NoPeer
    /\ schemas \in {S \in SUBSET {"s1"} : Dest \in DOMAIN tables => "s1" \in S}
    /\ sent = <<>> /\ raised = "none" /\ result = <<>>
    /\ uuid = 0

InitLoad == InitInstance /\ store = <<>>

InitStaged ==
    /\ InitInstance
    /\ store \in {<<>>} \cup {[o \in {<<b, StagedKey>>} |-> d] : b \in Buckets, d \in Payloads}

\* the steps of s3_to_redshift
S3Steps ==
    \/ \E ok \in BOOLEAN : S3ToDf(ok)
    \/ \E f \in AllFaults : DropDest(f)
    \/ \E f \in AllFaults : CheckTableExists(f)
    \/ \E f \in AllFaults : CreateSchema(f)
    \/ \E f \in AllFaults : CreateTable(f)
    \/ \E f \in AllFaults : DropTemp(f)
    \/ \E f \in AllFaults : CreateTemp(f)
    \/ \E f \in AllFaults : CopyFromS3(f)
    \/ \E f \in AllFaults : UpsertDelete(f)
    \/ \E f \in AllFaults : UpsertInsert(f)
    \/ \E f \in AllFaults : DropTempAfter(f)

\* a caller's df_to_redshift call, with any arguments
Load ==
    /\ pc = "idle" /\ call.entry = "none"
    /\ \E d \in Payloads, load_type \in LoadTypes, primary_keys \in PrimaryKeys,
          bucket \in CallerBuckets, keep_s3_backup \in BOOLEAN :
             DfToRedshift(d, load_type, primary_keys, bucket, keep_s3_backup)

\* the steps of df_to_redshift around s3_to_redshift
DfSteps ==
    \/ \E outcome \in {"to_csv raises", "put_object", "put_object raises"} : DfToS3(outcome)
    \/ \E ok \in BOOLEAN : DeleteFile(ok)

NextLoad ==
    \/ Load
    \/ DfSteps
    \/ S3Steps

\* one df_to_redshift call on an instance, from any warehouse state
SpecLoad == InitLoad /\ [][NextLoad]_vars

\* a caller's s3_to_redshift call, with any arguments
LoadFromStagedObject ==
    /\ pc = "idle" /\ call.entry = "none"
    /\ \E load_type \in LoadTypes, primary_keys \in PrimaryKeys, bucket \in CallerBuckets :
          S3ToRedshift(StagedKey, load_type, primary_keys, bucket)

NextStaged ==
    \/ LoadFromStagedObject
    \/ S3Steps

\* one s3_to_redshift call on an instance, from any warehouse state
SpecStaged == InitStaged /\ [][NextStaged]_vars

-----------------------------------------------------------------------------
(* The specification of the DDL builder: create_table_ddl_from_df on any frame *)

Columns == [name : {"id", "v"}, type : SourceTypes]
RECURSIVE SeqsUpTo(_, _)
SeqsUpTo(S, n) ==
    IF n = 0 THEN {<<>>}
    ELSE SeqsUpTo(S, n - 1) \cup {Append(q, x) : q \in SeqsUpTo(S, n - 1), x \in S}
Frames == {[cols |-> c, rows |-> EmptyBag] : c \in SeqsUpTo(Columns, MaxCols)}

\* sql_generator.create_table_ddl_from_df(schema_and_table, df, ...) called by the user
CreateTableDdlFromDf(d, add_updated_column, diststyle, sortkey) ==
    LET r == create_table_ddl_from_df(Dest, d, add_updated_column, diststyle, sortkey)
    IN  /\ pc = "idle" /\ call.entry = "none"
        /\ call' = [NoCall EXCEPT !.entry = "ddl", !.sortkey = sortkey]
        /\ df' = d
        /\ raised' = r.err
        /\ result' = <<r.stmt>>
        /\ UNCHANGED <<peer, conn, attempts, slept, tables, schemas, store, sent, pc, key, uuid>>

InitDDL ==
    /\ conn = "Connected" /\ attempts = 1 /\ slept = 0
    /\ tables = <<>> /\ schemas = {} /\ store = <<>>
    /\ sent = <<>> /\ raised = "none" /\ result = <<>>
    /\ pc = "idle" /\ call = NoCall /\ key = NoKey /\ df = NoDf /\ uuid = 0
    /\ peer = NoPeer

NextDDL ==
    \E d \in Frames, add_updated_column \in BOOLEAN, diststyle \in {None, "auto"},
       sortkey \in {None, "id"} :
          CreateTableDdlFromDf(d, add_updated_column, diststyle, sortkey)

SpecDDL == InitDDL /\ [][NextDDL]_vars

-----------------------------------------------------------------------------
(* The specification of a failed full-refresh load that its caller runs again *)

\* a full-refresh df_to_redshift call of a frame whose types are all mapped
FirstLoad ==
    /\ pc = "idle" /\ call.entry = "none" /\ ~call.again
    /\ \E d \in {p \in Payloads : \A i \in 1..Len(p.cols) : p.cols[i].type \in DOMAIN TypeMap},
          primary_keys \in PrimaryKeys, bucket \in CallerBuckets, keep_s3_backup \in BOOLEAN :
             DfToRedshift(d, "full-refresh", primary_keys, bucket, keep_s3_backup)

\* the steps of the first call: any of them may fail
FirstRunStep == ~call.again /\ (DfSteps \/ S3Steps)

\* after the call raised, the caller opens a fresh connection (Redshift.connect) to
\* run the same load again
Reconnect ==
    /\ LoadOver /\ raised # "none" /\ ~call.again
    /\ conn' = "Connected" /\ tables' = EndSession(tables)
    /\ call' = [call EXCEPT !.entry = "none", !.again = TRUE]
    /\ raised' = "none" /\ sent' = <<>> /\ result' = <<>>
    /\ UNCHANGED <<peer, attempts, slept, schemas, store, pc, key, df, uuid>>

\* the same df_to_redshift call, made again
Rerun ==
    /\ call.again
    /\ DfToRedshift(call.df, call.load_type, call.primary_keys, call.bucket,
                    call.keep_s3_backup)

\* the steps of the second call, in which the object store and the warehouse do not
\* fail and the frame is serialised
RerunStep ==
    /\ call.again
    /\ \/ DfToS3("put_object") \/ DeleteFile(TRUE) \/ S3ToDf(TRUE)
       \/ DropDest("none") \/ CheckTableExists("none") \/ CreateSchema("none")
       \/ CreateTable("none") \/ DropTemp("none") \/ CreateTemp("none")
       \/ CopyFromS3("none") \/ UpsertDelete("none") \/ UpsertInsert("none")
       \/ DropTempAfter("none")

InitRerun == InitLoad /\ conn = "Connected"

NextRerun ==
    \/ FirstLoad
    \/ FirstRunStep
    \/ Reconnect
    \/ Rerun
    \/ RerunStep

SpecRerun == InitRerun /\ [][NextRerun]_vars

-----------------------------------------------------------------------------
(* The specifications of two loads that two threads run on one instance *)

\* the thread that runs is suspended and the other one runs: its locals, and the log
\* of its call, take the place of the running thread's
Switch ==
    /\ call.entry # "none"
    /\ ~(pc = "idle" /\ peer.pc = "idle" /\ peer.call.entry # "none")
    /\ peer' = [pc |-> pc, call |-> call, key |-> key, df |-> df,
                sent |-> sent, raised |-> raised, result |-> result]
    /\ pc' = peer.pc /\ call' = peer.call /\ key' = peer.key /\ df' = peer.df
    /\ sent' = peer.sent /\ raised' = peer.raised /\ result' = peer.result
    /\ UNCHANGED <<conn, attempts, slept, tables, schemas, store, uuid>>

\* the key of a second object staged before the behaviour starts
StagedKey2 == <<"automated_loads", "t", -1>>
\* a staged frame of one row
Staged1(id) == [cols |-> ColSchema("object"), rows |-> SetToBag({[id |-> id, v |-> "a"]})]

\* a connected instance, a destination that holds one row, and two staged objects
InitRace ==
    /\ InitInstance /\ conn = "Connected"
    /\ Dest \in DOMAIN tables /\ BagCardinality(tables[Dest]) = 1
    /\ TempTable(Dest) \notin DOMAIN tables
    /\ store = [o \in {<<DefaultBucket, StagedKey>>, <<DefaultBucket, StagedKey2>>} |->
                   IF o[2] = StagedKey THEN Staged1(1) ELSE Staged1(MaxId)]

\* a thread's s3_to_redshift call: the first to call loads StagedKey, the other
\* StagedKey2
RaceLoad ==
    /\ pc = "idle" /\ call.entry = "none"
    /\ \E load_type \in LoadTypes, primary_keys \in PrimaryKeys :
          S3ToRedshift(IF peer.call.entry = "none" THEN StagedKey ELSE StagedKey2,
                       load_type, primary_keys, None)

NextRace ==
    \/ RaceLoad
    \/ Switch
    \/ S3Steps

SpecRace == InitRace /\ [][NextRace]_vars

\* a connected instance and an empty warehouse and object store
InitConcurrent ==
    /\ InitLoad /\ conn = "Connected"
    /\ tables = <<>> /\ schemas = {}

\* a thread's df_to_redshift call on the one destination, each thread with its frame
ConcurrentLoad ==
    /\ pc = "idle" /\ call.entry = "none"
    /\ \E bucket \in CallerBuckets, keep_s3_backup \in BOOLEAN :
          DfToRedshift(Staged1(IF peer.call.entry = "none" THEN 1 ELSE MaxId),
                       "full-refresh", <<"id">>, bucket, keep_s3_backup)

NextConcurrent ==
    \/ ConcurrentLoad
    \/ Switch
    \/ DfSteps
    \/ S3Steps

SpecConcurrent == InitConcurrent /\ [][NextConcurrent]_vars

-----------------------------------------------------------------------------
(* The specification of two loads, each into a destination of its own choice *)

\* destinations: two of one table name in different schemas, one of another name
Destinations == {<<"s1", "t">>, <<"s2", "t">>, <<"s1", "u">>}

\* a connected instance, every destination existing and empty, and two staged objects
InitDests ==
    /\ pc = "idle" /\ call = NoCall /\ key = NoKey /\ df = NoDf /\ peer = NoPeer
    /\ conn = "Connected" /\ attempts = 1 /\ slept = 0
    /\ tables = [d \in Destinations |-> EmptyBag]
    /\ schemas = {d[1] : d \in Destinations}
    /\ sent = <<>> /\ raised = "none" /\ result = <<>>
    /\ uuid = 0
    /\ store = [o \in {<<DefaultBucket, StagedKey>>, <<DefaultBucket, StagedKey2>>} |->
                   IF o[2] = StagedKey THEN Staged1(1) ELSE Staged1(MaxId)]

\* a thread's s3_to_redshift call into a destination: the first to call loads
\* StagedKey, the other StagedKey2
DestLoad ==
    /\ pc = "idle" /\ call.entry = "none"
    /\ \E schema_and_table \in Destinations, load_type \in LoadTypes :
          S3ToRedshiftOn(schema_and_table,
                         IF peer.call.entry = "none" THEN StagedKey ELSE StagedKey2,
                         load_type, <<"id">>, None)

NextDests ==
    \/ DestLoad
    \/ Switch
    \/ S3Steps

SpecDests == InitDests /\ [][NextDests]_vars

-----------------------------------------------------------------------------
(* The specification of the delete builder: any source, destination and keys *)

\* largest number of primary keys given to the delete builder
MaxKeys == 3
KeyNames == {"id", "v", "w"}
Sources == {TempTable(Dest), <<"s1", "u">>}
Dests == {Dest, <<"s2", "t">>}

\* sql_generator.get_delete_from_dest_using_source_query(source, dest, primary_keys)
\* called by the user
GetDeleteQuery(source, dest, primary_keys) ==
    /\ pc = "idle" /\ call.entry = "none"
    /\ call' = [NoCall EXCEPT !.entry = "delete", !.schema_and_table = dest,
                              !.primary_keys = primary_keys]
    /\ result' = <<get_delete_from_dest_using_source_query(source, dest, primary_keys)>>
    /\ UNCHANGED <<peer, conn, attempts, slept, tables, schemas, store, sent, raised,
                   pc, key, df, uuid>>

NextDelete ==
    \E source \in Sources, dest \in Dests, primary_keys \in SeqsUpTo(KeyNames, MaxKeys) :
        GetDeleteQuery(source, dest, primary_keys)

SpecDelete == InitDDL /\ [][NextDelete]_vars

RECURSIVE Conditions(_)
\* reading a where clause back: its conditions, each 'and S."k" = D."k" ', as
\* [source, skey, dest, dkey]; a condition of "?" where the text is not of that shape
Conditions(w) ==
    IF w = <<>> THEN <<>>
    ELSE IF Len(w) >= 9 /\ w[1] = "and " /\ w[3] = ".\"" /\ w[5] = "\" = "
                        /\ w[7] = ".\"" /\ w[9] = "\" "
    THEN <<[source |-> w[2], skey |-> w[4], dest |-> w[6], dkey |-> w[8]]>>
         \o Conditions(SubSeq(w, 10, Len(w)))
    ELSE <<[source |-> "?", skey |-> "?", dest |-> "?", dkey |-> "?"]>>

-----------------------------------------------------------------------------
(* Claims about the DDL builder, checked under SpecDDL *)

\* the tokens that end the column list in the two base strings
ListEnd == {get_ddl_base_string(TRUE)[1], get_ddl_base_string(FALSE)[1]}

\* the column list of a create-table text: what stands between " (" and its end
ColumnListOf(text) ==
    LET e == CHOOSE i \in 4..Len(text) :
                 text[i] \in ListEnd /\ \A j \in 4..(i - 1) : text[j] \notin ListEnd
    IN  SubSeq(text, 4, e - 1)

RECURSIVE Split(_, _)
\* str.split(sep) on token sequences
Split(s, sep) ==
    IF \A i \in 1..Len(s) : s[i] # sep THEN <<s>>
    ELSE LET i == CHOOSE k \in 1..Len(s) : s[k] = sep /\ \A j \in 1..(k - 1) : s[j] # sep
         IN  <<SubSeq(s, 1, i - 1)>> \o Split(SubSeq(s, i + 1, Len(s)), sep)

\* the entries of a column list, without the blank that follows each comma
Entries(list) ==
    IF list = <<>> THEN <<>>
    ELSE LET parts == Split(list, ",")
         IN  [i \in 1..Len(parts) |->
                 IF Len(parts[i]) > 0 /\ parts[i][1] = " " THEN Tail(parts[i]) ELSE parts[i]]

\* C10: for a ColumnSchema whose every source type is in the type map, the statement
\* is produced and its column list has one entry per column, in the schema's order,
\* each the quoted column name followed by the mapped warehouse type.
C10_ColumnListInOrder ==
    (call.entry = "ddl" /\ \A i \in 1..Len(df.cols) : df.cols[i].type \in DOMAIN TypeMap)
        => /\ raised = "none"
           /\ LET entries == Entries(ColumnListOf(result[1].text))
              IN  /\ Len(entries) = Len(df.cols)
                  /\ \A i \in 1..Len(df.cols) :
                        entries[i] = <<"\"", df.cols[i].name, "\" ", TypeMap[df.cols[i].type]>>

\* C10 witness: a statement built from two columns of different names and types
C10_Witness ==
    /\ call.entry = "ddl" /\ raised = "none" /\ Len(df.cols) = 2
    /\ df.cols[1].name # df.cols[2].name /\ df.cols[1].type # df.cols[2].type

-----------------------------------------------------------------------------
(* Claims about the connection, checked under SpecConn *)

\* C4 (as claimed): execute_and_fetch called with neither or with both output formats
\* raises before the statement is sent and before the connection is touched: no
\* statement reaches the cursor and the connection state is unchanged.
C4_FormatCheckedBeforeSend ==
    [][\A query \in ConnStmts, f \in AllFaults, b \in BOOLEAN :
          (conn = "Connected" /\ ExecuteAndFetch(query, b, b, f))
              => (sent' = <<>> /\ conn' = conn /\ raised' = "Exception")]_vars

\* C7: when the cursor raises e while execute or execute_and_fetch runs a statement,
\* the connection is Closed afterwards, e itself is raised to the caller, and no new
\* connection is opened.
C7_CloseAndReraise ==
    [][\A query \in ConnStmts, f \in AllFaults \ {"none"} :
          (conn = "Connected"
           /\ (\/ Execute(query, f)
               \/ \E rd, rj \in BOOLEAN : ExecuteAndFetch(query, rd, rj, f)))
              => (conn' = "Closed" /\ raised' = f /\ sent' = <<query>>
                  /\ attempts' = attempts)]_vars

\* C7 witness: a statement was sent, failed, and left the connection closed
C7_Witness == conn = "Closed" /\ raised = "OperationalError" /\ sent # <<>>

\* C8: while the connection is Closed, and until connect() is called, no call sends
\* a statement and the warehouse stays as it is.
C8_NoStatementWhileClosed ==
    [][(conn = "Closed" /\ ~(\E ok \in BOOLEAN : Connect(ok)))
          => (sent' = <<>> /\ tables' = tables /\ schemas' = schemas
              /\ conn' = "Closed")]_vars

\* C8 witness: a call was attempted on the closed connection and failed
C8_Witness == conn = "Closed" /\ raised = "InterfaceError"

\* C9: __init__ makes at most two connect attempts; the second is made only after
\* the first failed and the fixed delay passed; an instance exists only if one of
\* them succeeded; a second failure surfaces to the caller.
C9_ConnectRetriesOnce ==
    /\ attempts \in 0..2
    /\ attempts = 0 => (conn = "Disconnected" /\ slept = 0)
    /\ attempts = 1 => (conn # "Disconnected" /\ slept = 0)
    /\ attempts = 2 => slept = RetryDelay
    /\ (attempts = 2 /\ conn = "Disconnected") => raised = "OperationalError"
    /\ (attempts > 0 /\ conn = "Disconnected") => attempts = 2

\* C9 witness: the first attempt failed and the retry connected
C9_Witness == attempts = 2 /\ conn = "Connected" /\ slept = RetryDelay

\* the create-table statement of the destination, as a caller of execute sends it
CreateDest ==
    create_table_ddl_from_df(Dest, [cols |-> ColSchema("object")], FALSE, "auto", None).stmt

\* C11: whenever check_table_exists returns, it returns true exactly if the table
\* exists; in particular true when the call before it created the table and false
\* when the call before it dropped the table, whatever creates and drops came before.
C11_ExistsAfterCreateNotAfterDrop ==
    [][\A f \in AllFaults :
          (CheckTableExistsCall(f) /\ raised' = "none")
              => /\ (result' = <<1>>) <=> (Dest \in DOMAIN tables)
                 /\ result' \in {<<0>>, <<1>>}
                 /\ (sent = <<CreateDest>> /\ raised = "none") => result' = <<1>>
                 /\ (sent = <<get_drop_table_query(Dest)>> /\ raised = "none")
                        => result' = <<0>>]_vars

\* C11 witness: the check answered true on a table that holds no rows
C11_Witness ==
    /\ sent = <<get_table_exists_query(Dest[1], Dest[2])>> /\ raised = "none"
    /\ result = <<1>> /\ Dest \in DOMAIN tables /\ tables[Dest] = EmptyBag

-----------------------------------------------------------------------------
(* Claims about df_to_redshift, checked under SpecLoad *)

\* the rows the destination held when the call was made
RowsBefore == IF Dest \in DOMAIN call.before THEN call.before[Dest] ELSE EmptyBag
\* the object df_to_s3 wrote (key is set only once put_object succeeded)
StagedObject == <<BucketOr(call.bucket), key>>

C5_RejectedBeforeIO ==
    (call.entry = "df" /\ call.load_type = "incremental" /\ call.primary_keys = <<>>)
        => /\ pc = "idle" /\ raised = "Exception"
           /\ key = NoKey /\ store = <<>> /\ sent = <<>>
           /\ tables = call.before /\ uuid = 0

\* C5 witness: such a call was made and rejected
C5_Witness ==
    /\ call.entry = "df" /\ call.load_type = "incremental" /\ call.primary_keys = <<>>
    /\ raised = "Exception"

\* statements that define or remove a table or a schema
IsDdl(q) == q.op \in {"drop", "create_schema", "create_table", "create_temp"}
Unmapped(d) == \E i \in 1..Len(d.cols) : d.cols[i].type \notin DOMAIN TypeMap

\* C6 (as claimed): when the observed schema has a column whose source type is not in
\* the type map, the load is over with an error and no DDL statement of that load was
\* sent to the warehouse.
C6_UnmappedTypeBeforeDdl ==
    (pc = "idle" /\ call.entry # "none" /\ Unmapped(df))
        => /\ raised # "none"
           /\ raised = "TypeError" => \A i \in 1..Len(sent) : ~IsDdl(sent[i])

-----------------------------------------------------------------------------
(* Claims about s3_to_redshift, checked under SpecStaged *)

\* an s3_to_redshift call is over: it returned or raised
StagedOver == pc = "idle" /\ call.entry = "s3"
StagedReturned == StagedOver /\ raised = "none"

IsPrefix(a, b) == Len(a) <= Len(b) /\ a = SubSeq(b, 1, Len(a))
Ops(stmts) == [i \in 1..Len(stmts) |-> stmts[i].op]
OnStaging(q) == q.t = TempTable(Dest) \/ q.src = TempTable(Dest)
OnDest(q) == q.t = Dest /\ q.src = NoTable
\* the statements on the staging table that one load issues, in order
StagingOrder(primary_keys) ==
    <<"drop", "create_temp", "copy">>
    \o (IF primary_keys # <<>> THEN <<"delete">> ELSE <<>>) \o <<"insert", "drop">>
\* the rows the copy loads from the staged object
StagedRows == CopyRows(store[<<DefaultBucket, key>>].rows)
\* the destination rows that survive the upsert's delete
KeptRows(c) ==
    IF c.s3_load_type = "full-refresh" THEN EmptyBag
    ELSE IF c.primary_keys = <<>> THEN RowsBefore
    ELSE DeleteUsing(RowsBefore, StagedRows, c.primary_keys)

\* C13: the statements a load issues on the staging table are, in this order,
\* drop-if-exists, create-like-destination, copy, (delete-matching,) insert-all, drop,
\* none issued once one has failed; when the load returns all of them were issued, no
\* staging table exists, and the destination holds only kept rows and the rows copied
\* from the staged object (nothing of a staging table found at the start).
C13_StagingProtocol ==
    (call.entry = "s3")
        => /\ IsPrefix(Ops(SelectSeq(sent, OnStaging)), StagingOrder(call.primary_keys))
           /\ raised # "none" => pc = "idle"
           /\ StagedReturned
                 => /\ Ops(SelectSeq(sent, OnStaging)) = StagingOrder(call.primary_keys)
                    /\ TempTable(Dest) \notin DOMAIN tables
                    /\ tables[Dest] = KeptRows(call) (+) StagedRows

\* C13 witness: a load returned on a session that held a staging table with rows
C13_Witness ==
    /\ StagedReturned /\ TempTable(Dest) \in DOMAIN call.before
    /\ StagedRows # EmptyBag /\ call.primary_keys # <<>>

\* C14: a delete-matching statement is never issued with an empty key list; once the
\* upsert is past its delete point the delete was issued exactly if primary_keys is
\* non-empty, before the insert-all; insert-all is issued at most once, and exactly
\* once when the load returns.
C14_DeleteIffKeys ==
    (call.entry = "s3")
        => LET deletes == {i \in 1..Len(sent) : sent[i].op = "delete"}
               inserts == {i \in 1..Len(sent) : sent[i].op = "insert"}
           IN  /\ \A i \in deletes : sent[i].keys # <<>> /\ sent[i].keys = call.primary_keys
               /\ Cardinality(deletes) <= 1 /\ Cardinality(inserts) <= 1
               /\ (pc \in {"upsert_insert", "drop_temp_after"} \/ inserts # {})
                     => ((deletes # {}) <=> (call.primary_keys # <<>>))
               /\ \A i \in deletes, j \in inserts : i < j
               /\ StagedReturned => Cardinality(inserts) = 1

\* C14 witness: an incremental load with keys returned on a destination with rows
C14_Witness ==
    /\ StagedReturned /\ call.s3_load_type = "incremental" /\ call.primary_keys # <<>>
    /\ RowsBefore # EmptyBag /\ \E i \in 1..Len(sent) : sent[i].op = "delete"

\* C15: the destination is dropped only by a full-refresh load, as its first
\* statement, before the existence check; create-schema and create-table are issued
\* only when the check reported the destination absent, schema first, and when the
\* staging table is created both were issued exactly if it was absent; an existing
\* destination of an incremental load is neither dropped nor created again.
C15_DropAndCreateOrder ==
    (call.entry = "s3")
        => LET at(op) == {i \in 1..Len(sent) : sent[i].op = op /\ OnDest(sent[i])}
               first == IF call.s3_load_type = "full-refresh" THEN 2 ELSE 1
           IN  /\ at("drop") # {} => call.s3_load_type = "full-refresh"
               /\ (call.s3_load_type = "full-refresh" /\ sent # <<>>) => at("drop") = {1}
               /\ at("exists") \subseteq {first}
               /\ {i \in 1..Len(sent) : sent[i].op = "create_schema"} \subseteq {first + 1}
               /\ at("create_table") \subseteq {first + 2}
               /\ \A i \in 1..Len(sent) :
                     sent[i].op \in {"create_schema", "create_table"}
                         => (result = <<0>> /\ sent[i - 1].op =
                                IF sent[i].op = "create_schema" THEN "exists"
                                ELSE "create_schema")
               /\ \A i \in 1..Len(sent) :
                     sent[i].op = "create_temp"
                         => /\ at("exists") = {first}
                            /\ (at("create_table") # {}) <=> (result = <<0>>)
               /\ (call.s3_load_type = "incremental" /\ Dest \in DOMAIN call.before)
                     => (at("drop") = {} /\ at("create_table") = {}
                         /\ Dest \in DOMAIN tables)

\* C15 witness: an incremental load returned on a destination that existed
C15_Witness ==
    /\ StagedReturned /\ call.s3_load_type = "incremental" /\ Dest \in DOMAIN call.before
    /\ call.before[Dest] # EmptyBag

-----------------------------------------------------------------------------
(* Claims about failures inside df_to_redshift, checked under SpecLoad *)

\* the positions of a load at which it executes a statement
StmtPcs == {"drop_dest", "check_table_exists", "create_schema", "create_table",
            "drop_temp", "create_temp", "copy", "upsert_delete", "upsert_insert",
            "drop_temp_after"}

\* C16: a step of the load in which a statement fails (the connection is Closed after
\* it) ends df_to_redshift with that error raised to its caller, having sent at most
\* that one statement; and once the load has raised, it takes no further step: no
\* retry and no later statement.
C16_FailurePropagates ==
    [][/\ (call.entry = "df" /\ pc \in StmtPcs /\ conn' = "Closed")
            => /\ pc' = "idle"
               /\ raised' \in {"OperationalError", "ProgrammingError", "InterfaceError"}
               /\ Len(sent') <= Len(sent) + 1
       /\ ~(LoadOver /\ raised # "none")]_vars

\* C16 witness: the load raised the error of its third statement or a later one
C16_Witness ==
    LoadOver /\ raised = "OperationalError" /\ Len(sent) >= 3 /\ conn = "Closed"

-----------------------------------------------------------------------------
(* Claims about running a failed load again, checked under SpecRerun *)

\* C18 (as claimed): when a full-refresh load that failed at some step is run again
\* on a fresh connection, with nothing repaired in between and nothing failing this
\* time, it returns and leaves the destination with exactly the rows of the input
\* (as the copy loads them) and no staging table.
C18_RerunSucceeds ==
    (LoadOver /\ call.again)
        => /\ raised = "none"
           /\ Dest \in DOMAIN tables /\ tables[Dest] = CopyRows(call.df.rows)
           /\ TempTable(Dest) \notin DOMAIN tables

-----------------------------------------------------------------------------
(* Claims about two loads on one instance, checked under SpecRace *)

\* a step of the running load (not a switch of threads)
LoadStep == peer' = peer

\* C19: both loads name their staging table <table>__tmp in the one session: when a
\* load executes its drop-if-exists while the other has copied its rows into the
\* staging table and not yet inserted them, no staging table is left (the copied
\* rows are discarded); and an insert-all adds to the destination whatever the
\* staging table of that name holds at that moment.
C19_SharedStagingTable ==
    [][/\ (LoadStep /\ pc = "drop_temp" /\ pc' = "create_temp"
           /\ peer.pc \in {"upsert_delete", "upsert_insert"})
            => \A n \in DOMAIN tables' : ~IsTemp(n)
       /\ (LoadStep /\ pc = "upsert_insert" /\ pc' = "drop_temp_after")
            => tables'[Dest] = tables[Dest] (+) tables[TempTable(Dest)]]_vars

\* C19 witness: an incremental load on an existing destination returned, its staged
\* object holds rows, and none of them is in the destination: the other load, which
\* has only created the staging table so far, replaced the one these rows were in
C19_Witness ==
    /\ StagedReturned /\ call.s3_load_type = "incremental"
    /\ peer.call.s3_load_type = "incremental" /\ peer.pc = "copy"
    /\ StagedRows # EmptyBag
    /\ \A r \in BagToSet(StagedRows) : ~BagIn(r, tables[Dest])

-----------------------------------------------------------------------------
(* Claims about two df_to_redshift calls on one instance, checked under SpecConcurrent *)

\* subdirectory + '/' + '{}-{}.csv'.format(table, token), as its parts
KeyOf(c) == <<c.subdirectory, c.schema_and_table[2], c.token>>
\* the keys the copy statements of a log read
Copied(stmts) == {stmts[i].obj[2] : i \in {j \in 1..Len(stmts) : stmts[j].op = "copy"}}
\* the objects a step writes, overwrites or deletes
Touched == {o \in DOMAIN store \cup DOMAIN store' :
               o \notin DOMAIN store \/ o \notin DOMAIN store' \/ store[o] # store'[o]}

\* C20: the key of a load's staged object is <subdirectory>/<table>-<token>.csv with
\* the token drawn for that load; two loads never hold the same token or key; and a
\* load writes, deletes, reads back and copies only the object of its own key.
C20_DistinctStagedKeys ==
    /\ [](/\ key # NoKey => key = KeyOf(call)
          /\ peer.key # NoKey => peer.key = KeyOf(peer.call)
          /\ (call.entry = "df" /\ peer.call.entry = "df")
                => (call.token # peer.call.token /\ KeyOf(call) # KeyOf(peer.call))
          /\ Copied(sent) \subseteq {key} /\ Copied(peer.sent) \subseteq {peer.key}
          /\ Copied(sent) \cap {peer.key} = {})
    /\ [][LoadStep
            => /\ \A o \in Touched : o[2] = key' /\ o[2] # peer.key
               /\ (df' # df /\ pc' # "idle")
                     => df' = store[<<BucketOr(call.s3_bucket), KeyOf(call)>>]]_vars

\* C20 witness: both loads have written their staged objects, to the same bucket
C20_Witness ==
    /\ key # NoKey /\ peer.key # NoKey /\ call.bucket = peer.call.bucket
    /\ {<<BucketOr(call.bucket), key>>, <<BucketOr(call.bucket), peer.key>>}
           \subseteq DOMAIN store

-----------------------------------------------------------------------------
(* Claims about the object a df_to_redshift call stages, checked under SpecLoad *)

\* the objects the copy statements of a log name
CopiedObjects(stmts) == {stmts[i].obj : i \in {j \in 1..Len(stmts) : stmts[j].op = "copy"}}

-----------------------------------------------------------------------------
(* Claims about loads into several destinations, checked under SpecDests *)

\* the temporary tables the statements of a log name (the name in a create-schema
\* statement is a schema's)
StagingOf(stmts) ==
    LET onTables == {j \in 1..Len(stmts) : stmts[j].op # "create_schema"}
    IN  {stmts[i].t : i \in {j \in onTables : IsTemp(stmts[j].t)}}
            \cup {stmts[i].src : i \in {j \in onTables : IsTemp(stmts[j].src)}}
\* the rows the copy loads from the object the other thread's load stages
PeerRows == CopyRows(store[<<DefaultBucket, peer.key>>].rows)

\* C22 (as claimed): two loads whose destinations differ, be it in the table or only
\* in the schema, name no staging table in common.
C22_StagingPerDestination ==
    (call.entry = "s3" /\ peer.call.entry = "s3"
     /\ call.schema_and_table # peer.call.schema_and_table)
        => StagingOf(sent) \cap StagingOf(peer.sent) = {}

\* C22 (amended): the only staging table a load names is <table>__tmp, the schema of
\* its destination left out: two loads whose destinations differ in the table name
\* name no staging table in common, and two loads whose destinations have the same
\* table name, in the same schema or in different ones, name the same staging table.
C22_StagingPerTableName ==
    (call.entry = "s3" /\ peer.call.entry = "s3")
        => /\ StagingOf(sent) \subseteq {<<call.schema_and_table[2] \o "__tmp">>}
           /\ StagingOf(peer.sent) \subseteq {<<peer.call.schema_and_table[2] \o "__tmp">>}
           /\ call.schema_and_table[2] # peer.call.schema_and_table[2]
                 => StagingOf(sent) \cap StagingOf(peer.sent) = {}
           /\ (call.schema_and_table[2] = peer.call.schema_and_table[2]
               /\ StagingOf(sent) # {} /\ StagingOf(peer.sent) # {})
                 => StagingOf(sent) = StagingOf(peer.sent)

\* C22 witness: a load into s1.t returned while a load into s2.t runs, both named the
\* one staging table, and s1.t holds the rows staged for s2.t and not its own
C22_Witness ==
    /\ StagedReturned /\ call.schema_and_table = <<"s1", "t">>
    /\ peer.call.schema_and_table = <<"s2", "t">> /\ peer.pc # "idle"
    /\ StagingOf(sent) = StagingOf(peer.sent) /\ StagingOf(sent) # {}
    /\ tables[call.schema_and_table] = PeerRows /\ PeerRows # StagedRows

====
